---- MODULE Spec2Model ----
(***************************************************************************)
(* Model of src/main.py: the edit pipeline of main() -- duration probing   *)
(* (ffprobe, then the ffmpeg inspect fallback), compute_trim_window,       *)
(* has_audio_stream, build_ffmpeg_command and the encode invocation.       *)
(*                                                                         *)
(* Times are fixed-point: one tick is 1/TicksPerMs of a millisecond, so    *)
(* sub-millisecond durations are representable.  Optional values           *)
(* (float | None) are sequences: <<>> is None, <<v>> is the value v.       *)
(***************************************************************************)
EXTENDS Integers, Sequences, FiniteSets, TLC

VARIABLES pc, ffprobe_binary, output_video, result, duration, fallback_result,
          audio_result, window, include_audio, ffmpeg_cmd, encode_result,
          calls, status

vars == <<pc, ffprobe_binary, output_video, result, duration, fallback_result,
          audio_result, window, include_audio, ffmpeg_cmd, encode_result,
          calls, status>>

(***************************************************************************)
(* Bounds of the model.                                                    *)
(***************************************************************************)
TicksPerMs == 5
MaxNear == 12
MaxWholeSeconds == 16
MaxLines == 2
MaxExit == 2

(***************************************************************************)
(* Program constants.                                                      *)
(***************************************************************************)
START_SECOND == 5
END_SECOND == 15

MS == TicksPerMs
SEC == 1000 * TicksPerMs

\* the literal 0.001 of compute_trim_window
EPSILON == MS

None == <<>>
Some(v) == <<v>>

Min(a, b) == IF a <= b THEN a ELSE b
Max(a, b) == IF a >= b THEN a ELSE b

(***************************************************************************)
(* Inputs: what the external tools can answer.                             *)
(***************************************************************************)
\* durations (ticks) a probe can report: sub-millisecond values, values
\* around the two desired offsets, and whole seconds
Durations ==
    (1..MaxNear)
    \cup {START_SECOND * SEC + k : k \in (0 - MaxNear)..MaxNear}
    \cup {END_SECOND * SEC + k : k \in (0 - MaxNear)..MaxNear}
    \cup {k * SEC : k \in 1..MaxWholeSeconds}

\* exit codes of a child process (negative: killed by a signal)
ExitCodes == (0 - 1)..MaxExit

\* stdout of ffprobe -show_entries format=duration -of json
ProbeStdouts ==
    {[kind |-> k, value |-> 0] :
        k \in {"empty", "invalid_json", "no_format", "no_duration", "not_a_number"}}
    \cup {[kind |-> "number", value |-> v] : v \in Durations \cup {0, 0 - 1}}

\* lines of the diagnostic text of `ffmpeg -i <file>`: a header line
\* "Duration: HH:MM:SS.frac", a "Stream #i:j ... <codec>:" line, or other text
Line(t, h, m, s, cs, codec) ==
    [t |-> t, h |-> h, m |-> m, s |-> s, cs |-> cs, codec |-> codec]

Lines ==
    {Line("duration", 0, 0, 0, 0, "-"),
     Line("duration", 0, 1, 5, 50, "-"),
     Line("duration", 0, 0, 3, 0, "-"),
     Line("duration", 1, 0, 0, 4, "-"),
     Line("stream", 0, 0, 0, 0, "Audio"),
     Line("stream", 0, 0, 0, 0, "Video"),
     Line("other", 0, 0, 0, 0, "-")}

Outputs == UNION {[1..n -> Lines] : n \in 0..MaxLines}

\* what subprocess.run gives: launched = FALSE stands for the OSError it
\* raises when the process cannot be started
Completed(rc, out) == [launched |-> TRUE, returncode |-> rc, stdout |-> out]
LaunchError(out) == [launched |-> FALSE, returncode |-> 0, stdout |-> out]

ProbeResults ==
    {LaunchError([kind |-> "empty", value |-> 0])}
    \cup {Completed(0, s) : s \in ProbeStdouts}
    \cup {Completed(c, s) : c \in ExitCodes \ {0},
                            s \in {[kind |-> "empty", value |-> 0],
                                   [kind |-> "number", value |-> 3 * SEC]}}

InspectResults ==
    {LaunchError(<<>>)}
    \cup {Completed(c, o) : c \in ExitCodes, o \in Outputs}

EncodeResults ==
    {LaunchError(<<>>)} \cup {Completed(c, <<>>) : c \in ExitCodes}

InputVideo == "/clips/in.mp4"
Logo == "/clips/logo.png"
OutputVideos == {"/clips/edited_video.mp4", "/out/final.mp4"}
FfmpegBinary == "/usr/bin/ffmpeg"
FfprobeBinary == "/usr/bin/ffprobe"

(***************************************************************************)
(* parse_duration_from_ffmpeg_probe_output                                 *)
(***************************************************************************)
parse_duration_from_ffmpeg_probe_output(output) ==
    LET matches == {i \in 1..Len(output) : output[i].t = "duration"}
    IN  IF matches = {} THEN None
        ELSE LET i == CHOOSE k \in matches : \A j \in matches : k <= j
                 match == output[i]
                 hours == match.h
                 minutes == match.m
                 seconds == match.s * SEC + match.cs * 10 * MS
                 d == hours * 3600 * SEC + minutes * 60 * SEC + seconds
             IN  IF d > 0 THEN Some(d) ELSE None

(***************************************************************************)
(* has_audio_stream: the regular expression  Stream #\d+:\d+.*Audio:       *)
(***************************************************************************)
AudioPattern(combined_output) ==
    \E i \in 1..Len(combined_output) :
        /\ combined_output[i].t = "stream"
        /\ combined_output[i].codec = "Audio"

(***************************************************************************)
(* get_video_duration_seconds, the structured probe (lines 123-140):       *)
(* the value of `duration` after it, or an exception out of json.loads or  *)
(* float().                                                                *)
(***************************************************************************)
StructuredRaises(r) ==
    /\ r.returncode = 0
    /\ r.stdout.kind \in {"invalid_json", "not_a_number"}

StructuredDuration(r) ==
    IF r.returncode = 0 /\ r.stdout.kind = "number"
    THEN Some(r.stdout.value)
    ELSE None

\* line 142: the fallback runs when the structured probe left no value
NeedsFallback(d) == d = None

\* as DurationRejected, without the test duration <= 0
DurationRejected_OnlyNone(d) == d = None

\* line 148: the value get_video_duration_seconds refuses to return
DurationRejected(d) == d = None \/ d[1] <= 0

(***************************************************************************)
(* compute_trim_window                                                     *)
(***************************************************************************)
\* as compute_trim_window, without the clamp max(..., 0.0) of the start
compute_trim_window_Unclamped(video_duration_seconds) ==
    LET start == Min(START_SECOND * SEC, video_duration_seconds - EPSILON)
        end == Min(END_SECOND * SEC, video_duration_seconds)
    IN  IF end <= start
        THEN <<0, video_duration_seconds>>
        ELSE <<start, end>>

compute_trim_window(video_duration_seconds) ==
    LET start == Min(START_SECOND * SEC, Max(video_duration_seconds - EPSILON, 0))
        end == Min(END_SECOND * SEC, video_duration_seconds)
    IN  IF end <= start
        THEN <<0, video_duration_seconds>>
        ELSE <<start, end>>

(***************************************************************************)
(* f"{x:.3f}": the nearest multiple of a millisecond, ties to even.        *)
(***************************************************************************)
Format3f(x) ==
    LET q == x \div MS
        r == x % MS
    IN  IF 2 * r < MS THEN q
        ELSE IF 2 * r > MS THEN q + 1
        ELSE IF q % 2 = 0 THEN q ELSE q + 1

(***************************************************************************)
(* build_ffmpeg_command.  A command is a list of tokens; a token is plain  *)
(* text, a time printed with three decimals (in milliseconds), or the      *)
(* filter graph, kept as the list of its lexemes: labels, filters and the  *)
(* separators "," and ";".                                                 *)
(***************************************************************************)
ZOOM_FACTOR == "1.1"
WATERMARK_WIDTH_RATIO == "0.12"
PADDING_PX == "20"

Text(s) == [kind |-> "text", text |-> s, millis |-> 0, lex |-> <<>>]
Time(x) == [kind |-> "time", text |-> "", millis |-> Format3f(x), lex |-> <<>>]
Graph(l) == [kind |-> "graph", text |-> "", millis |-> 0, lex |-> l]

video_chain ==
    <<"[0:v]",
      "scale=iw*" \o ZOOM_FACTOR \o ":ih*" \o ZOOM_FACTOR,
      ",",
      "crop=iw/" \o ZOOM_FACTOR \o ":ih/" \o ZOOM_FACTOR
          \o ":(in_w-out_w)/2:(in_h-out_h)/2",
      "[base]",
      ";",
      "[1:v]", "[base]",
      "scale2ref=w=main_w*" \o WATERMARK_WIDTH_RATIO \o ":h=-1",
      "[wm]", "[base2]",
      ";",
      "[base2]", "[wm]",
      "overlay=W-w-" \o PADDING_PX \o ":H-h-" \o PADDING_PX,
      "[vout]">>

\* as filter_complex, without the audio chain
filter_complex_VideoOnly(include) == video_chain

filter_complex(include) ==
    IF include
    THEN video_chain \o <<";", "[0:a]", "asetpts=PTS-STARTPTS", "[aout]">>
    ELSE video_chain

audio_args(include) ==
    IF include
    THEN <<Text("-map"), Text("[aout]"), Text("-c:a"), Text("aac")>>
    ELSE <<>>

\* as build_ffmpeg_command, with the seek flags after the primary input
build_ffmpeg_command_SeekAfterInput(ffmpeg_binary, input_video, logo, out, include, start_second, end_second) ==
    <<Text(ffmpeg_binary), Text("-y"),
      Text("-i"), Text(input_video),
      Text("-ss"), Time(start_second),
      Text("-to"), Time(end_second),
      Text("-loop"), Text("1"),
      Text("-i"), Text(logo)>>
    \o <<Text("-filter_complex"), Graph(filter_complex(include)),
         Text("-map"), Text("[vout]")>>
    \o audio_args(include)
    \o <<Text("-c:v"), Text("libx264"),
         Text("-pix_fmt"), Text("yuv420p"),
         Text("-shortest"),
         Text("-movflags"), Text("+faststart"),
         Text(out)>>

build_ffmpeg_command(ffmpeg_binary, input_video, logo, out, include, start_second, end_second) ==
    <<Text(ffmpeg_binary), Text("-y"),
      Text("-ss"), Time(start_second),
      Text("-to"), Time(end_second),
      Text("-i"), Text(input_video),
      Text("-loop"), Text("1"),
      Text("-i"), Text(logo)>>
    \o <<Text("-filter_complex"), Graph(filter_complex(include)),
         Text("-map"), Text("[vout]")>>
    \o audio_args(include)
    \o <<Text("-c:v"), Text("libx264"),
         Text("-pix_fmt"), Text("yuv420p"),
         Text("-shortest"),
         Text("-movflags"), Text("+faststart"),
         Text(out)>>

(***************************************************************************)
(* main: the status it returns from its exception handlers.                *)
(***************************************************************************)
\* as CalledProcessErrorStatus, with the status of the generic handler
CalledProcessErrorStatus_Generic(returncode) == 1

\* except subprocess.CalledProcessError as exc: return exc.returncode
CalledProcessErrorStatus(returncode) == returncode

\* except Exception: return 1
ExceptionStatus == 1

(***************************************************************************)
(* State after main() has parsed its arguments.                            *)
(***************************************************************************)
Init ==
    /\ pc = "resolve_paths"
    /\ ffprobe_binary = None
    /\ output_video = None
    /\ result = None
    /\ duration = None
    /\ fallback_result = None
    /\ audio_result = None
    /\ window = None
    /\ include_audio = FALSE
    /\ ffmpeg_cmd = <<>>
    /\ encode_result = None
    /\ calls = <<>>
    /\ status = None

\* lines 335-340: resolve_paths; None when the file picker was cancelled
ResolvePaths ==
    /\ pc = "resolve_paths"
    /\ \/ /\ pc' = "done"
          /\ status' = Some(1)
          /\ UNCHANGED output_video
       \/ /\ \E o \in OutputVideos : output_video' = Some(o)
          /\ pc' = "resolve_tools"
          /\ UNCHANGED status
    /\ calls' = Append(calls, "resolve_paths")
    /\ UNCHANGED <<ffprobe_binary, result, duration, fallback_result,
                   audio_result, window, include_audio, ffmpeg_cmd,
                   encode_result>>

\* lines 342-348: resolve_ffmpeg_binary, resolve_ffprobe_binary,
\* validate_input_file (twice) and ensure_output_path; each of them but
\* resolve_ffprobe_binary can raise
Prepare ==
    /\ pc = "resolve_tools"
    /\ \/ /\ pc' = "done"
          /\ status' = Some(ExceptionStatus)
          /\ UNCHANGED ffprobe_binary
       \/ /\ \E b \in {None, Some(FfprobeBinary)} : ffprobe_binary' = b
          /\ pc' = "ffprobe"
          /\ UNCHANGED status
    /\ calls' = Append(calls, "prepare")
    /\ UNCHANGED <<output_video, result, duration, fallback_result,
                   audio_result, window, include_audio, ffmpeg_cmd,
                   encode_result>>

\* get_video_duration_seconds, lines 121-140: the structured probe
StructuredProbe ==
    /\ pc = "ffprobe"
    /\ IF ffprobe_binary = None
       THEN /\ duration' = None
            /\ pc' = "fallback"
            /\ UNCHANGED <<result, calls, status>>
       ELSE \E r \in ProbeResults :
            /\ result' = Some(r)
            /\ calls' = Append(calls, "ffprobe")
            /\ IF ~r.launched \/ StructuredRaises(r)
               THEN /\ pc' = "done"
                    /\ status' = Some(ExceptionStatus)
                    /\ UNCHANGED duration
               ELSE /\ duration' = StructuredDuration(r)
                    /\ pc' = IF NeedsFallback(duration')
                             THEN "fallback" ELSE "check_duration"
                    /\ UNCHANGED status
    /\ UNCHANGED <<ffprobe_binary, output_video, fallback_result, audio_result,
                   window, include_audio, ffmpeg_cmd, encode_result>>

\* get_video_duration_seconds, lines 142-146: the ffmpeg inspect fallback
FallbackProbe ==
    /\ pc = "fallback"
    /\ \E r \in InspectResults :
        /\ fallback_result' = Some(r)
        /\ IF ~r.launched
           THEN /\ pc' = "done"
                /\ status' = Some(ExceptionStatus)
                /\ UNCHANGED duration
           ELSE /\ duration' = parse_duration_from_ffmpeg_probe_output(r.stdout)
                /\ pc' = "check_duration"
                /\ UNCHANGED status
    /\ calls' = Append(calls, "ffmpeg_inspect")
    /\ UNCHANGED <<ffprobe_binary, output_video, result, audio_result, window,
                   include_audio, ffmpeg_cmd, encode_result>>

\* get_video_duration_seconds, lines 148-153: raise or return
CheckDuration ==
    /\ pc = "check_duration"
    /\ IF DurationRejected(duration)
       THEN /\ pc' = "done"
            /\ status' = Some(ExceptionStatus)
       ELSE /\ pc' = "trim"
            /\ UNCHANGED status
    /\ UNCHANGED <<ffprobe_binary, output_video, result, duration,
                   fallback_result, audio_result, window, include_audio,
                   ffmpeg_cmd, encode_result, calls>>

\* lines 350-351: main takes the value get_video_duration_seconds returned
\* (the locals result and fallback_result of that call are gone) and calls
\* compute_trim_window
ComputeTrimWindow ==
    /\ pc = "trim"
    /\ result' = None
    /\ fallback_result' = None
    /\ window' = Some(compute_trim_window(duration[1]))
    /\ calls' = Append(calls, "compute_trim_window")
    /\ pc' = "audio"
    /\ UNCHANGED <<ffprobe_binary, output_video, duration, audio_result,
                   include_audio, ffmpeg_cmd, encode_result, status>>

\* line 353: has_audio_stream (lines 79-83)
HasAudioStream ==
    /\ pc = "audio"
    /\ \E r \in InspectResults :
        /\ audio_result' = Some(r)
        /\ IF ~r.launched
           THEN /\ pc' = "done"
                /\ status' = Some(ExceptionStatus)
                /\ UNCHANGED include_audio
           ELSE /\ include_audio' = AudioPattern(r.stdout)
                /\ pc' = "build"
                /\ UNCHANGED status
    /\ calls' = Append(calls, "has_audio_stream")
    /\ UNCHANGED <<ffprobe_binary, output_video, result, duration,
                   fallback_result, window, ffmpeg_cmd, encode_result>>

\* lines 353-362: main takes the value has_audio_stream returned (the local
\* result of that call is gone) and calls build_ffmpeg_command
BuildCommand ==
    /\ pc = "build"
    /\ audio_result' = None
    /\ ffmpeg_cmd' = build_ffmpeg_command(FfmpegBinary, InputVideo, Logo,
                                          output_video[1], include_audio,
                                          window[1][1], window[1][2])
    /\ calls' = Append(calls, "build_ffmpeg_command")
    /\ pc' = "encode"
    /\ UNCHANGED <<ffprobe_binary, output_video, result, duration,
                   fallback_result, window, include_audio, encode_result,
                   status>>

\* line 365: subprocess.run(ffmpeg_cmd, check=True), and the handlers of
\* lines 372-379
Encode ==
    /\ pc = "encode"
    /\ \E r \in EncodeResults :
        /\ encode_result' = Some(r)
        /\ IF ~r.launched
           THEN /\ pc' = "done"
                /\ status' = Some(ExceptionStatus)
           ELSE IF r.returncode # 0
           THEN /\ pc' = "done"
                /\ status' = Some(CalledProcessErrorStatus(r.returncode))
           ELSE /\ pc' = "report"
                /\ UNCHANGED status
    /\ calls' = Append(calls, "encode")
    /\ UNCHANGED <<ffprobe_binary, output_video, result, duration,
                   fallback_result, audio_result, window, include_audio,
                   ffmpeg_cmd>>

\* lines 367-371
Report ==
    /\ pc = "report"
    /\ pc' = "done"
    /\ status' = Some(0)
    /\ UNCHANGED <<ffprobe_binary, output_video, result, duration,
                   fallback_result, audio_result, window, include_audio,
                   ffmpeg_cmd, encode_result, calls>>

Next ==
    \/ ResolvePaths
    \/ Prepare
    \/ StructuredProbe
    \/ FallbackProbe
    \/ CheckDuration
    \/ ComputeTrimWindow
    \/ HasAudioStream
    \/ BuildCommand
    \/ Encode
    \/ Report

Spec == Init /\ [][Next]_vars

TypeOK ==
    /\ pc \in {"resolve_paths", "resolve_tools", "ffprobe", "fallback",
               "check_duration", "trim", "audio", "build", "encode",
               "report", "done"}
    /\ include_audio \in BOOLEAN
    /\ Len(status) <= 1

(***************************************************************************)
(* Vocabulary of the properties.                                           *)
(***************************************************************************)
Called(f) == \E i \in 1..Len(calls) : calls[i] = f
TimesCalled(f) == Cardinality({i \in 1..Len(calls) : calls[i] = f})

WindowComputed == window # None
CommandBuilt == ffmpeg_cmd # <<>>

\* get_video_duration_seconds has been entered and has returned or raised
ProbeFinished ==
    /\ pc \notin {"resolve_paths", "resolve_tools", "ffprobe", "fallback",
                  "check_duration"}
    /\ Called("ffprobe") \/ Called("ffmpeg_inspect")

\* ... and main has not gone on yet: what its two invocations gave is in
\* result and fallback_result
ProbeJustFinished == ProbeFinished /\ ~Called("compute_trim_window")

ProbeFailed == ProbeJustFinished /\ pc = "done"

StructuredPositive ==
    /\ result # None
    /\ result[1].launched
    /\ result[1].returncode = 0
    /\ result[1].stdout.kind = "number"
    /\ result[1].stdout.value > 0

FallbackInvoked == fallback_result # None

\* the duration written in the first "Duration:" line of the fallback's text
FallbackSeconds ==
    IF FallbackInvoked /\ fallback_result[1].launched
    THEN parse_duration_from_ffmpeg_probe_output(fallback_result[1].stdout)
    ELSE None

\* C1: a duration d with 0 < d <= 5 s gives the window (0, d).
C1_ShortSourceFullWindow ==
    (WindowComputed /\ duration[1] > 0 /\ duration[1] <= START_SECOND * SEC)
        => window[1] = <<0, duration[1]>>

\* C2: a duration d with 5 s < d <= 15 s gives the window (5, d).
C2_StartAtDesiredOffset ==
    (WindowComputed /\ duration[1] > START_SECOND * SEC
                    /\ duration[1] <= END_SECOND * SEC)
        => window[1] = <<START_SECOND * SEC, duration[1]>>

\* C3: for every duration d > 0 the window satisfies 0 <= start < end <= d.
C3_WindowWithinSource ==
    (WindowComputed /\ duration[1] > 0)
        => /\ 0 <= window[1][1]
           /\ window[1][1] < window[1][2]
           /\ window[1][2] <= duration[1]

\* a window computed for a source shorter than the guard of 1 ms
C3_Witness ==
    /\ WindowComputed
    /\ duration[1] > 0
    /\ duration[1] < EPSILON
    /\ window[1][1] = 0

\* the outcomes of the structured probe that give no positive number:
\* ffprobe unavailable, a non-zero exit, no format.duration field, or a
\* value <= 0
StructuredUnusable ==
    \/ result = None
    \/ /\ result[1].launched
       /\ \/ result[1].returncode # 0
          \/ result[1].stdout.kind \in {"empty", "no_format", "no_duration"}
          \/ result[1].stdout.kind = "number" /\ result[1].stdout.value <= 0

\* get_video_duration_seconds raised its own failure (line 149)
ProbeFailureRaised ==
    /\ ProbeFailed
    /\ result # None => (result[1].launched /\ ~StructuredRaises(result[1]))
    /\ FallbackInvoked => fallback_result[1].launched

\* C4: the fallback is invoked whenever the structured probe is unavailable
\* or gives no positive number, and is not invoked when it gives one; the
\* duration parsed by the fallback is then the one used, and the failure is
\* raised only when the fallback yields no positive duration either.
C4_FallbackWheneverNoPositiveProbe ==
    ProbeJustFinished =>
        /\ StructuredPositive => ~FallbackInvoked
        /\ StructuredUnusable => FallbackInvoked
        /\ (FallbackInvoked /\ FallbackSeconds # None)
               => (duration = FallbackSeconds /\ ~ProbeFailed)
        /\ ProbeFailureRaised => (FallbackInvoked /\ FallbackSeconds = None)

\* C5: when no positive duration was obtained, compute_trim_window,
\* has_audio_stream, build_ffmpeg_command and the encode are never run and
\* main returns a non-zero status.
C5_NoEncodeWithoutDuration ==
    /\ (\/ Called("compute_trim_window")
        \/ Called("has_audio_stream")
        \/ Called("build_ffmpeg_command")
        \/ Called("encode"))
           => (duration # None /\ duration[1] > 0)
    /\ (ProbeFinished /\ (duration = None \/ duration[1] <= 0))
           => (pc = "done" /\ status # None /\ status[1] # 0)

\* both tiers ran and neither gave a positive duration
C5_Witness ==
    /\ pc = "done"
    /\ Called("ffprobe")
    /\ FallbackInvoked
    /\ fallback_result[1].launched
    /\ duration = None
    /\ status = Some(1)

\* C6: has_audio_stream returns a boolean for every outcome of its inspect
\* invocation (false when no audio stream line is found), and main goes on
\* to the encode whatever the detector met.
C6_DetectorNeverFails ==
    audio_result # None =>
        /\ pc = "done" => encode_result # None
        /\ (~audio_result[1].launched \/ ~AudioPattern(audio_result[1].stdout))
               => include_audio = FALSE

\* C7: a non-zero exit code of the encode is main's status, the encode is
\* launched at most once, and main returns 0 only after an encode that
\* exited with 0.
C7_EncodeStatusPreserved ==
    /\ (encode_result # None /\ encode_result[1].launched
            /\ encode_result[1].returncode # 0)
           => (pc = "done" /\ status = Some(encode_result[1].returncode))
    /\ TimesCalled("encode") <= 1
    /\ status = Some(0)
           => (encode_result # None /\ encode_result[1].launched
                   /\ encode_result[1].returncode = 0)

\* the encoder exited with a code other than 0 and 1
C7_Witness ==
    /\ pc = "done"
    /\ encode_result # None
    /\ encode_result[1].launched
    /\ encode_result[1].returncode > 1
    /\ status = Some(encode_result[1].returncode)

(***************************************************************************)
(* The command as the encoder reads it.                                    *)
(***************************************************************************)
cmd == ffmpeg_cmd
IsText(i, s) == i \in 1..Len(cmd) /\ cmd[i] = Text(s)
IsTime(i) == i \in 1..Len(cmd) /\ cmd[i].kind = "time"
FirstInput == CHOOSE i \in 1..Len(cmd) :
                  IsText(i, "-i") /\ \A j \in 1..(i - 1) : ~IsText(j, "-i")

\* number of tokens before, and after, the optional audio tokens
HeadLen == 16
TailLen == 8

\* C8: the tokens follow the fixed order; the seek flags precede the first
\* -i and the output path is the last token.
C8_TokenOrder ==
    CommandBuilt =>
        LET a == IF include_audio THEN 4 ELSE 0
        IN  /\ Len(cmd) = HeadLen + a + TailLen
            /\ IsText(1, FfmpegBinary)
            /\ IsText(2, "-y")
            /\ IsText(3, "-ss") /\ IsTime(4)
            /\ cmd[4].millis = Format3f(window[1][1])
            /\ IsText(5, "-to") /\ IsTime(6)
            /\ cmd[6].millis = Format3f(window[1][2])
            /\ IsText(7, "-i") /\ IsText(8, InputVideo)
            /\ IsText(9, "-loop") /\ IsText(10, "1")
            /\ IsText(11, "-i") /\ IsText(12, Logo)
            /\ IsText(13, "-filter_complex") /\ cmd[14].kind = "graph"
            /\ IsText(15, "-map") /\ IsText(16, "[vout]")
            /\ include_audio =>
                   /\ IsText(17, "-map") /\ IsText(18, "[aout]")
                   /\ IsText(19, "-c:a") /\ IsText(20, "aac")
            /\ IsText(HeadLen + a + 1, "-c:v")
            /\ IsText(HeadLen + a + 2, "libx264")
            /\ IsText(HeadLen + a + 3, "-pix_fmt")
            /\ IsText(HeadLen + a + 4, "yuv420p")
            /\ IsText(HeadLen + a + 5, "-shortest")
            /\ IsText(HeadLen + a + 6, "-movflags")
            /\ IsText(HeadLen + a + 7, "+faststart")
            /\ cmd[Len(cmd)] = Text(output_video[1])
            /\ \A i \in 1..Len(cmd) :
                   (IsText(i, "-ss") \/ IsText(i, "-to")) => i < FirstInput

\* a command built without audio for a window that starts at the desired offset
C8_Witness ==
    /\ CommandBuilt
    /\ ~include_audio
    /\ window[1][1] = START_SECOND * SEC
    /\ cmd[4].millis = START_SECOND * 1000

(***************************************************************************)
(* The filter graph as the encoder reads it: chains separated by ";", the  *)
(* labels leading a chain are its inputs, those closing it its outputs.    *)
(***************************************************************************)
StreamLabels == {"[0:v]", "[1:v]", "[0:a]"}
IntermediateLabels == {"[base]", "[wm]", "[base2]"}
OutputLabels == {"[vout]", "[aout]"}
Labels == StreamLabels \cup IntermediateLabels \cup OutputLabels

GraphOf(c) == c[CHOOSE i \in 1..Len(c) : c[i].kind = "graph"].lex

\* positions where label l is an output of a chain of g
Defs(g, l) ==
    {i \in 1..Len(g) :
        /\ g[i] = l
        /\ \A j \in i..Len(g) :
               (\A k \in i..j : g[k] # ";") => g[j] \in Labels}

\* positions where label l is an input of a chain of g
Uses(g, l) ==
    {i \in 1..Len(g) :
        /\ g[i] = l
        /\ \A j \in 1..i :
               (\A k \in j..i : g[k] # ";") => g[j] \in Labels}

Mapped(c) == {c[i + 1].text : i \in {j \in 1..(Len(c) - 1) : c[j] = Text("-map")}}

\* C9: the graph defines [vout] once, [aout] once iff audio is included; the
\* command maps [aout] and names an audio codec iff audio is included; every
\* mapped label is defined by the graph; every intermediate label is
\* produced once and consumed once, by a later stage.
C9_GraphLabels ==
    CommandBuilt =>
        LET g == GraphOf(cmd)
        IN  /\ Cardinality(Defs(g, "[vout]")) = 1
            /\ Cardinality(Defs(g, "[aout]")) = IF include_audio THEN 1 ELSE 0
            /\ ("[aout]" \in Mapped(cmd)) <=> include_audio
            /\ (\E i \in 1..Len(cmd) : IsText(i, "-c:a")) <=> include_audio
            /\ \A l \in Mapped(cmd) : Defs(g, l) # {}
            /\ \A l \in IntermediateLabels :
                   /\ Cardinality(Defs(g, l)) = 1
                   /\ Cardinality(Uses(g, l)) = 1
                   /\ \A d \in Defs(g, l) : \A u \in Uses(g, l) : d < u
            /\ \A l \in Labels \ (StreamLabels \cup IntermediateLabels) :
                   Defs(g, l) # {} => (l \in Mapped(cmd) /\ Uses(g, l) = {})

\* a command built for a source with an audio stream
C9_Witness ==
    /\ CommandBuilt
    /\ include_audio
    /\ "[aout]" \in Mapped(cmd)
    /\ Defs(GraphOf(cmd), "[aout]") # {}

\* C10: for every duration d > 0 the value emitted after -ss is strictly
\* less than the value emitted after -to.
C10_SeekRangeNotEmpty ==
    (CommandBuilt /\ duration[1] > 0)
        => cmd[4].millis < cmd[6].millis

====
